---- MODULE Spec2Model ----
(***************************************************************************)
(* Model of src-tauri/src/lib.rs of tikker: the greet command and the      *)
(* application bootstrap run().                                            *)
(*                                                                         *)
(* run() is one builder chain.  Each call of the chain is one action and   *)
(* pc is the position in the chain.  The setup closure is registered by    *)
(* .setup(..) and executed by the framework inside .run(..); its body is   *)
(* split at its two statements so that their order is observable.          *)
(* Strings are sequences of one-character strings.                         *)
(***************************************************************************)
EXTENDS Integers, Sequences, FiniteSets, TLC

VARIABLES
    platform,     \* cfg(target_os): "macos" or "other", fixed at build time
    pc,           \* position in run()
    plugins,      \* plugins registered on the builder, in order
    commands,     \* commands of the registered invoke handler
    setupHook,    \* TRUE once the setup closure is registered
    tray,         \* result of tray::init_macos_menu_extra: "none", "ok", "err"
    policy,       \* the process's activation policy
    setupResult,  \* what the setup closure returned: "none", "ok", "err"
    runResult,    \* what Builder::run returned: "none", "ok", "err"
    fatalMsg,     \* message of the panic that ended the process, or "none"
    loopEntered,  \* TRUE once the run loop has dispatched the application
    executed,     \* how many times each startup step has been executed
    calls,        \* number of greet invocations so far
    marked,       \* history: one earlier greet call, remembered
    last          \* history: the most recent greet call

vars == <<platform, pc, plugins, commands, setupHook, tray, policy, setupResult,
          runResult, fatalMsg, loopEntered, executed, calls, marked, last>>

appState == <<platform, plugins, commands, setupHook, tray, policy, setupResult,
              runResult, fatalMsg, loopEntered, executed>>

(***************************************************************************)
(* Bounds.                                                                 *)
(***************************************************************************)
MaxLen == 2
MaxCalls == 3

\* The characters a name is made of: the blank, which a trim would drop, and
\* the two braces, which format! treats specially in its template.
Alphabet == {" ", "{", "}"}

Names == UNION {[1..n -> Alphabet] : n \in 0..MaxLen}

(***************************************************************************)
(* greet: format!("Hello, {}! You've been greeted from Rust!", name)       *)
(***************************************************************************)
Template ==
    <<"H", "e", "l", "l", "o", ",", " ", "{", "}", "!", " ", "Y", "o", "u", "'",
      "v", "e", " ", "b", "e", "e", "n", " ", "g", "r", "e", "e", "t", "e", "d",
      " ", "f", "r", "o", "m", " ", "R", "u", "s", "t", "!">>

\* A Display that drops the blanks in front of the string.
RECURSIVE DisplayTrimmed(_)
DisplayTrimmed(s) ==
    IF s # <<>> /\ Head(s) = " " THEN DisplayTrimmed(Tail(s)) ELSE s

\* Display for &str writes the string as it is.
Display(s) == s

\* format!: the template is scanned once, left to right; "{{" and "}}" are the
\* escaped braces, "{}" is replaced by the next positional argument as Display
\* writes it; text that an argument brings in is not scanned again.
RECURSIVE FormatFrom(_, _, _, _)
FormatFrom(t, i, args, k) ==
    IF i > Len(t) THEN <<>>
    ELSE IF i < Len(t) /\ t[i] = "{" /\ t[i + 1] = "{"
        THEN <<"{">> \o FormatFrom(t, i + 2, args, k)
    ELSE IF i < Len(t) /\ t[i] = "}" /\ t[i + 1] = "}"
        THEN <<"}">> \o FormatFrom(t, i + 2, args, k)
    ELSE IF i < Len(t) /\ t[i] = "{" /\ t[i + 1] = "}"
        THEN Display(args[k]) \o FormatFrom(t, i + 2, args, k + 1)
    ELSE <<t[i]>> \o FormatFrom(t, i + 1, args, k)

Format(t, args) == FormatFrom(t, 1, args, 1)

\* A greeting that depends on how many greetings were made before.
greetCounting(name) ==
    Format(Template, <<name>>) \o (IF calls % 2 = 1 THEN <<"!">> ELSE <<>>)

greet(name) == Format(Template, <<name>>)

NoCall == [name |-> <<>>, result |-> <<>>, at |-> 0]

(***************************************************************************)
(* run()                                                                   *)
(***************************************************************************)
Steps == {"default", "plugin_opener", "plugin_positioner", "invoke_handler",
          "setup", "run", "setup_hook", "init_macos_menu_extra",
          "set_activation_policy", "expect"}

Did(step) == [executed EXCEPT ![step] = @ + 1]

\* The block compiled in on every platform.
IsMacosEverywhere == TRUE

\* #[cfg(target_os = "macos")]: the block is compiled in on macOS only.
IsMacos == platform = "macos"

\* A handler generated for no command.
HandlerCommandsNone == {}

\* tauri::generate_handler![greet]
HandlerCommands == {"greet"}

\* The policy of a process that never called set_activation_policy: the Dock
\* icon is visible.
DefaultPolicy == "Regular"

\* The policy that keeps the Dock icon.
HiddenPolicyRegular == "Regular"

\* tauri::ActivationPolicy::Accessory: no Dock icon.
HiddenPolicy == "Accessory"

\* .expect("error while running tauri application")
ExpectMsg == "error while running tauri application"

\* The framework's own panic when it does not hand a setup error back to the
\* caller of Builder::run.
SetupPanicMsg == "Failed to setup app"

\* tray::init_macos_menu_extra(app.handle()) returns a Result.
TrayOutcomes == {"ok", "err"}

\* What the call leaves behind: the tray is installed or not; the activation
\* policy is not its business.
init_macos_menu_extra(outcome) ==
    /\ tray' = outcome
    /\ policy' = policy

\* The result of the call dropped instead of tried.
AfterTryIgnored(outcome) == "hook_policy"

\* The ? operator: an Err leaves the closure at once with that error, an Ok
\* goes on to the next statement.
AfterTry(outcome) == IF outcome = "err" THEN "setup_failed" ELSE "hook_policy"

Init ==
    /\ platform \in {"macos", "other"}
    /\ pc = "start"
    /\ plugins = <<>>
    /\ commands = {}
    /\ setupHook = FALSE
    /\ tray = "none"
    /\ policy = DefaultPolicy
    /\ setupResult = "none"
    /\ runResult = "none"
    /\ fatalMsg = "none"
    /\ loopEntered = FALSE
    /\ executed = [s \in Steps |-> 0]
    /\ calls = 0
    /\ marked = NoCall
    /\ last = NoCall

\* tauri::Builder::default()
BuilderDefault ==
    /\ pc = "start"
    /\ pc' = "b_default"
    /\ executed' = Did("default")
    /\ UNCHANGED <<platform, plugins, commands, setupHook, tray, policy, setupResult,
                   runResult, fatalMsg, loopEntered, calls, marked, last>>

\* .plugin(tauri_plugin_opener::init())
PluginOpener ==
    /\ pc = "b_default"
    /\ pc' = "b_opener"
    /\ plugins' = Append(plugins, "opener")
    /\ executed' = Did("plugin_opener")
    /\ UNCHANGED <<platform, commands, setupHook, tray, policy, setupResult,
                   runResult, fatalMsg, loopEntered, calls, marked, last>>

\* .plugin(tauri_plugin_positioner::init())
PluginPositioner ==
    /\ pc = "b_opener"
    /\ pc' = "b_positioner"
    /\ plugins' = Append(plugins, "positioner")
    /\ executed' = Did("plugin_positioner")
    /\ UNCHANGED <<platform, commands, setupHook, tray, policy, setupResult,
                   runResult, fatalMsg, loopEntered, calls, marked, last>>

\* .invoke_handler(tauri::generate_handler![greet]): the builder holds one
\* invoke handler, which this call sets.
InvokeHandler ==
    /\ pc = "b_positioner"
    /\ pc' = "b_handler"
    /\ commands' = HandlerCommands
    /\ executed' = Did("invoke_handler")
    /\ UNCHANGED <<platform, plugins, setupHook, tray, policy, setupResult,
                   runResult, fatalMsg, loopEntered, calls, marked, last>>

\* .setup(|app| { .. }): registers the closure, does not run it.
Setup ==
    /\ pc = "b_handler"
    /\ pc' = "b_setup"
    /\ setupHook' = TRUE
    /\ executed' = Did("setup")
    /\ UNCHANGED <<platform, plugins, commands, tray, policy, setupResult,
                   runResult, fatalMsg, loopEntered, calls, marked, last>>

\* .run(tauri::generate_context!()): the framework builds the application; when
\* that fails run returns Err, otherwise the framework goes on to the setup
\* closure.
Run ==
    /\ pc = "b_setup"
    /\ executed' = Did("run")
    /\ \E built \in BOOLEAN :
         IF built
         THEN pc' = "hook_enter" /\ runResult' = runResult
         ELSE pc' = "run_err" /\ runResult' = "err"
    /\ UNCHANGED <<platform, plugins, commands, setupHook, tray, policy, setupResult,
                   fatalMsg, loopEntered, calls, marked, last>>

\* The framework calls the registered setup closure.
HookEnter ==
    /\ pc = "hook_enter"
    /\ setupHook
    /\ pc' = "hook_body"
    /\ executed' = Did("setup_hook")
    /\ UNCHANGED <<platform, plugins, commands, setupHook, tray, policy, setupResult,
                   runResult, fatalMsg, loopEntered, calls, marked, last>>

\* tray::init_macos_menu_extra(app.handle())?;
HookTrayInit ==
    /\ pc = "hook_body"
    /\ IsMacos
    /\ \E outcome \in TrayOutcomes :
         /\ init_macos_menu_extra(outcome)
         /\ pc' = AfterTry(outcome)
         /\ setupResult' = IF AfterTry(outcome) = "setup_failed" THEN "err"
                           ELSE setupResult
    /\ executed' = Did("init_macos_menu_extra")
    /\ UNCHANGED <<platform, plugins, commands, setupHook, runResult, fatalMsg,
                   loopEntered, calls, marked, last>>

\* app.set_activation_policy(tauri::ActivationPolicy::Accessory);
HookSetPolicy ==
    /\ pc = "hook_policy"
    /\ pc' = "hook_ok"
    /\ policy' = HiddenPolicy
    /\ executed' = Did("set_activation_policy")
    /\ UNCHANGED <<platform, plugins, commands, setupHook, tray, setupResult,
                   runResult, fatalMsg, loopEntered, calls, marked, last>>

\* Ok(()): after the macOS block, or at once where the block is compiled out.
HookReturnOk ==
    /\ \/ pc = "hook_ok"
       \/ pc = "hook_body" /\ ~IsMacos
    /\ pc' = "ready"
    /\ setupResult' = "ok"
    /\ UNCHANGED <<platform, plugins, commands, setupHook, tray, policy,
                   runResult, fatalMsg, loopEntered, executed, calls, marked, last>>

\* A setup error that is swallowed: the application starts all the same.
SetupFailedSwallowed ==
    /\ pc = "setup_failed"
    /\ pc' = "ready"
    /\ UNCHANGED <<platform, plugins, commands, setupHook, tray, policy, setupResult,
                   runResult, fatalMsg, loopEntered, executed, calls, marked, last>>

\* The setup closure returned Err: the framework does not start the
\* application.  It hands the error back from Builder::run, or panics itself.
SetupFailed ==
    /\ pc = "setup_failed"
    /\ \/ pc' = "run_err" /\ runResult' = "err" /\ fatalMsg' = fatalMsg
       \/ pc' = "fatal" /\ runResult' = runResult /\ fatalMsg' = SetupPanicMsg
    /\ UNCHANGED <<platform, plugins, commands, setupHook, tray, policy, setupResult,
                   loopEntered, executed, calls, marked, last>>

\* A run loop that is entered before the setup closure is called.
EnterLoopBeforeSetup ==
    /\ pc = "hook_enter"
    /\ ~loopEntered
    /\ loopEntered' = TRUE
    /\ UNCHANGED <<pc, platform, plugins, commands, setupHook, tray, policy,
                   setupResult, runResult, fatalMsg, executed, calls, marked, last>>

\* The setup closure returned Ok: the framework's run loop takes over the main
\* thread and dispatches the application's events.
EnterLoop ==
    /\ pc = "ready"
    /\ pc' = "loop"
    /\ loopEntered' = TRUE
    /\ UNCHANGED <<platform, plugins, commands, setupHook, tray, policy, setupResult,
                   runResult, fatalMsg, executed, calls, marked, last>>

\* A greet that unregisters the command handler as it answers.
InvokeGreetUnregistering(name) ==
    /\ pc = "loop"
    /\ "greet" \in commands
    /\ calls < MaxCalls
    /\ calls' = calls + 1
    /\ last' = [name |-> name, result |-> greet(name), at |-> calls + 1]
    /\ \E remember \in BOOLEAN : marked' = IF remember THEN last' ELSE marked
    /\ commands' = {}
    /\ UNCHANGED <<pc, platform, plugins, setupHook, tray, policy,
                   setupResult, runResult, fatalMsg, loopEntered, executed>>

\* The UI invokes the greet command; the loop dispatches it to greet.  The
\* call is recorded in last, and the observer may remember it in marked.
InvokeGreet(name) ==
    /\ pc = "loop"
    /\ "greet" \in commands
    /\ calls < MaxCalls
    /\ calls' = calls + 1
    /\ last' = [name |-> name, result |-> greet(name), at |-> calls + 1]
    /\ \E remember \in BOOLEAN : marked' = IF remember THEN last' ELSE marked
    /\ UNCHANGED <<pc, platform, plugins, commands, setupHook, tray, policy,
                   setupResult, runResult, fatalMsg, loopEntered, executed>>

\* The application ends: the run loop ends and Builder::run returns Ok(()).
LoopExit ==
    /\ pc = "loop"
    /\ pc' = "run_ok"
    /\ runResult' = "ok"
    /\ UNCHANGED <<platform, plugins, commands, setupHook, tray, policy, setupResult,
                   fatalMsg, loopEntered, executed, calls, marked, last>>

\* An expect replaced by a retry: on Err the application is run again.
ExpectRetry ==
    /\ \/ pc = "run_err" /\ pc' = "b_setup" /\ fatalMsg' = fatalMsg
       \/ pc = "run_ok" /\ pc' = "returned" /\ fatalMsg' = fatalMsg
    /\ executed' = Did("expect")
    /\ UNCHANGED <<platform, plugins, commands, setupHook, tray, policy, setupResult,
                   runResult, loopEntered, calls, marked, last>>

\* .expect("error while running tauri application"): panics with the message
\* on Err, unwraps on Ok, after which run() returns.
Expect ==
    /\ \/ pc = "run_err" /\ pc' = "fatal" /\ fatalMsg' = ExpectMsg
       \/ pc = "run_ok" /\ pc' = "returned" /\ fatalMsg' = fatalMsg
    /\ executed' = Did("expect")
    /\ UNCHANGED <<platform, plugins, commands, setupHook, tray, policy, setupResult,
                   runResult, loopEntered, calls, marked, last>>

Next ==
    \/ BuilderDefault
    \/ PluginOpener
    \/ PluginPositioner
    \/ InvokeHandler
    \/ Setup
    \/ Run
    \/ HookEnter
    \/ HookTrayInit
    \/ HookSetPolicy
    \/ HookReturnOk
    \/ SetupFailed
    \/ EnterLoop
    \/ \E name \in Names : InvokeGreet(name)
    \/ LoopExit
    \/ Expect

Spec == Init /\ [][Next]_vars

(***************************************************************************)
(* Properties.                                                             *)
(***************************************************************************)
GreetingHead == <<"H", "e", "l", "l", "o", ",", " ">>

GreetingTail ==
    <<"!", " ", "Y", "o", "u", "'", "v", "e", " ", "b", "e", "e", "n", " ", "g",
      "r", "e", "e", "t", "e", "d", " ", "f", "r", "o", "m", " ", "R", "u", "s",
      "t", "!">>

Contains(r, s) ==
    \E i \in 0..(Len(r) - Len(s)) : SubSeq(r, i + 1, i + Len(s)) = s

StartupSteps == Steps \ {"expect"}

\* C1: every greet(s) returned a string that contains s and the fixed greeting
\* text, and two calls with the same s returned the same string, whatever
\* calls were made in between.
C1_GreetDeterministic ==
    /\ \A c \in {marked, last} :
         c.at > 0 =>
           /\ Contains(c.result, c.name)
           /\ Contains(c.result, GreetingHead)
           /\ Contains(c.result, GreetingTail)
    /\ (marked.at > 0 /\ marked.name = last.name) => marked.result = last.result

\* Two calls with the same non-empty name, with another call in between.
C1_Witness ==
    /\ marked.at > 0
    /\ last.at >= marked.at + 2
    /\ marked.name = last.name
    /\ Len(last.name) > 0

C3_OtherPlatformNoTray ==
    platform = "other" =>
       /\ executed["init_macos_menu_extra"] = 0
       /\ tray = "none"
       /\ executed["set_activation_policy"] = 0
       /\ policy = "Regular"
       /\ setupResult # "err"
       /\ (executed["setup_hook"] = 1 /\ pc # "hook_body") => setupResult = "ok"

\* The run loop of a build for another platform is running.
C3_Witness == platform = "other" /\ pc = "loop" /\ setupResult = "ok"

C5_SingleFailurePathNoRetry ==
    /\ \A s \in Steps : executed[s] <= 1
    /\ runResult = "err" =>
         /\ pc \in {"run_err", "fatal"}
         /\ (pc = "fatal" => fatalMsg = "error while running tauri application")
    /\ pc = "fatal" => ~ENABLED Next

\* Builder::run returned an error and the process aborted with the message.
C5_Witness ==
    /\ runResult = "err"
    /\ pc = "fatal"
    /\ fatalMsg = "error while running tauri application"
    /\ executed["run"] = 1

\* C6: a call of greet returns a greeting for every name, the empty one
\* included, and changes nothing of the application's state.
C6_GreetNoSideEffects ==
    [][calls' # calls =>
         /\ UNCHANGED appState
         /\ pc' = pc
         /\ last'.at = calls'
         /\ Contains(last'.result, GreetingHead)]_vars

\* greet was called with the empty string while a macOS application runs.
C6_Witness ==
    /\ last.at > 0
    /\ last.name = <<>>
    /\ pc = "loop"
    /\ policy = "Accessory"

\* C7: from the moment the run loop is entered the registered commands are
\* exactly {greet} and both plugins are registered.
C7_CommandSurface ==
    loopEntered =>
       /\ commands = {"greet"}
       /\ plugins = <<"opener", "positioner">>

\* The loop has been entered and has served greet.
C7_Witness == pc = "loop" /\ calls = MaxCalls

C9_PolicyOnlyAfterTrayOk ==
    /\ tray = "err" =>
         (executed["set_activation_policy"] = 0 /\ policy = "Regular")
    /\ executed["set_activation_policy"] > 0 => tray = "ok"
    /\ policy # "Regular" => tray = "ok"

\* Tray initialization failed; the error is on its way out of Builder::run.
C9_Witness ==
    /\ platform = "macos"
    /\ tray = "err"
    /\ pc = "run_err"
    /\ policy = "Regular"

\* C10: greet(s) is "Hello, " followed by s as it is, followed by
\* "! You've been greeted from Rust!"; its length is that of s plus 39, and
\* calls with different names returned different strings.
C10_GreetExact ==
    /\ \A c \in {marked, last} :
         c.at > 0 =>
           /\ c.result = GreetingHead \o c.name \o GreetingTail
           /\ Len(c.result) = Len(c.name) + 39
    /\ (marked.at > 0 /\ marked.name # last.name) => marked.result # last.result

\* greet was called with "{}" after a call with another name.
C10_Witness ==
    /\ marked.at > 0
    /\ last.at > marked.at
    /\ marked.name # last.name
    /\ last.name = <<"{", "}">>
====
